---------------------------- MODULE Spec2Model ----------------------------
(***************************************************************************)
(* Model of the change-detection engine of laboratorio_cambio_urbano:      *)
(*   scripts/detect_changes.py    (masking, three detectors, entry point)  *)
(*   scripts/calculate_indices.py (spectral indices of one image)          *)
(*                                                                         *)
(* Numbers.  Index values (NDVI, NDBI, NDWI, BSI) and Z-scores are kept in *)
(* hundredths: the integer 30 stands for 0.30.  NaN is one reserved        *)
(* integer; every arithmetic and comparison operator below treats it as    *)
(* numpy does (arithmetic gives NaN, every ordered comparison is False).   *)
(* A raster band is a sequence over the pixels of the grid (row-major),    *)
(* an image is a sequence of bands.                                        *)
(***************************************************************************)
EXTENDS Integers, Sequences, FiniteSets, TLC

(***************************************************************************)
(* Bounds of the model.                                                    *)
(***************************************************************************)
\* number of historical years offered to method_anomaly in SpecLib
MaxHist == 3
\* how far outside [MIN_YEAR, MAX_YEAR] the command-line years are drawn
YearMargin == 1
\* number of years (from MIN_YEAR on) whose index file may exist in Spec
NFileYears == 3

(***************************************************************************)
(* Program constants.                                                      *)
(***************************************************************************)
NaN == -999999999
MIN_YEAR == 2019
MAX_YEAR == 2025
\* rasterio.mask.mask(..., crop=False) fills the pixels outside the shapes
\* with the raster's nodata, 0 when the raster declares none
MaskFill == 0
\* method_difference(..., threshold=0.15)
threshold == 15
\* thresholds of method_urban_classification: 0.3, 0.1 and 0.0
VegThreshold == 30
DeltaThreshold == 10
ZeroThreshold == 0

(***************************************************************************)
(* numpy arithmetic with NaN.                                              *)
(***************************************************************************)
isfinite(x) == x # NaN

Sub(a, b) == IF isfinite(a) /\ isfinite(b) THEN a - b ELSE NaN

Add(a, b) == IF isfinite(a) /\ isfinite(b) THEN a + b ELSE NaN

Gt(a, b) == isfinite(a) /\ isfinite(b) /\ a > b

Lt(a, b) == isfinite(a) /\ isfinite(b) /\ a < b

Le(a, b) == isfinite(a) /\ isfinite(b) /\ a <= b

\* a == b of numpy: False as soon as one side is NaN
Eq(a, b) == isfinite(a) /\ isfinite(b) /\ a = b

\* quotient rounded toward zero
Quot(a, b) == IF a >= 0 THEN a \div b ELSE -((-a) \div b)

RECURSIVE SqrtSearch(_, _, _)
SqrtSearch(x, lo, hi) ==
    IF lo >= hi THEN lo
    ELSE LET mid == (lo + hi + 1) \div 2
         IN  IF mid * mid <= x THEN SqrtSearch(x, mid, hi)
                               ELSE SqrtSearch(x, lo, mid - 1)

\* floor of the square root of x >= 0
ISqrt(x) == SqrtSearch(x, 0, 46340)

RECURSIVE SumSeq(_)
SumSeq(s) == IF s = <<>> THEN 0 ELSE Head(s) + SumSeq(Tail(s))

(***************************************************************************)
(* State.                                                                  *)
(***************************************************************************)
VARIABLES
    files,      \* data/processed/indices_<year>.tif: year -> [exists, bands]
    vector,     \* data/vector/limite_comuna.gpkg: [exists, inside]
    outputs,    \* change rasters of data/processed: kind -> [written, ...]
    metadata,   \* lines of data/processed/metadata_changes.txt
    stdout,     \* messages printed by the entry point itself
    args,       \* parsed command line: [t1, t2, method]
    pc,         \* position of the running script
    exitStatus, \* exit status of the process, Running while it runs
    started,    \* detection methods entered so far
    result,     \* how the last method call ended: "none", "ok", "error", "raised"
    locals,     \* parameters and arrays of the last method call
    raw,        \* data/raw/sentinel2_<year>.tif: year -> [exists, bands]
    index_log,  \* blocks of data/processed/metadata.txt
    imagenes,   \* calculate_indices.py: the sorted list of source rasters
    attempts    \* calculate_indices.py: the rasters the loop has taken so far

vars == <<files, vector, outputs, metadata, stdout, args, pc, exitStatus,
          started, result, locals, raw, index_log, imagenes, attempts>>

\* the state of the batch of calculate_indices.py
batch_vars == <<index_log, imagenes, attempts>>

Years == MIN_YEAR..MAX_YEAR

Kinds == {"diff", "urban", "anomaly"}

Running == 0 - 1

NoFile == [exists |-> FALSE, bands |-> <<>>]

NoOutput ==
    [written |-> FALSE, data |-> <<>>, dtype |-> "", nodata |-> 0,
     compress |-> "", name |-> <<>>]

\* parameters and arrays of a method call; 0 and <<>> where it has none
Frame(t1_path, t2_path, target_year, img_t1, img_t2, stack) ==
    [t1_path |-> t1_path, t2_path |-> t2_path, target_year |-> target_year,
     img_t1 |-> img_t1, img_t2 |-> img_t2, stack |-> stack]

NoLocals == Frame(0, 0, 0, <<>>, <<>>, <<>>)

Entry(msg, a, b) == [msg |-> msg, a |-> a, b |-> b]

\* the two header lines written when the module is loaded
Header == <<Entry("METADATOS DE DETECCION DE CAMBIOS", 0, 0), Entry("=====", 0, 0)>>

(***************************************************************************)
(* log_message: one timestamped line appended to the metadata file.        *)
(***************************************************************************)
\* mutant: the file is opened with mode "w", the line replaces the log
log_message_overwrite(log, msg, a, b) == <<Entry(msg, a, b)>>

log_message(log, msg, a, b) == Append(log, Entry(msg, a, b))

(***************************************************************************)
(* load_masked_image.                                                      *)
(***************************************************************************)
\* mutant: the geometry is not applied, every pixel keeps its stored value
mask_unclipped(src, band_indices) ==
    [i \in DOMAIN band_indices |-> src.bands[band_indices[i]]]

\* rasterio.mask.mask(src, gdf.geometry, crop=False, indexes=band_indices)
mask(src, band_indices) ==
    [i \in DOMAIN band_indices |->
        [p \in DOMAIN src.bands[band_indices[i]] |->
            IF vector.inside[p] THEN src.bands[band_indices[i]][p]
                                ELSE MaskFill]]

\* out_image[out_image == 0] = np.nan
zero_to_nan(out_image) ==
    [i \in DOMAIN out_image |->
        [p \in DOMAIN out_image[i] |->
            IF Eq(out_image[i][p], 0) THEN NaN ELSE out_image[i][p]]]

\* mutant: the boundary file is not required to exist
can_load_unchecked(tif_path) == files[tif_path].exists

\* rasterio.open(tif_path) succeeds and VECTOR_FILE.exists()
can_load(tif_path) == files[tif_path].exists /\ vector.exists

load_masked_image(tif_path, band_indices) ==
    zero_to_nan(mask(files[tif_path], band_indices))

\* mutant: the rasters are opened in update mode and the masked bands are
\* written back to them
inputs_updated ==
    /\ files' = [y \in Years |->
                    IF files[y].exists /\ vector.exists
                    THEN [files[y] EXCEPT !.bands =
                             mask(files[y], [i \in DOMAIN files[y].bands |-> i])]
                    ELSE files[y]]
    /\ UNCHANGED <<vector, raw>>

\* rasterio.open(tif_path) and gpd.read_file(VECTOR_FILE) open for reading,
\* and the outputs go to paths of their own: the inputs stay as they are
inputs_read_only == UNCHANGED <<files, vector, raw>>

(***************************************************************************)
(* save_raster: encoding chosen from the array, then the file is written   *)
(* and one line is logged.                                                 *)
(***************************************************************************)
ArrayMin(data) == CHOOSE m \in {data[p] : p \in DOMAIN data} :
                      \A p \in DOMAIN data : m <= data[p]

ArrayMax(data) == CHOOSE m \in {data[p] : p \in DOMAIN data} :
                      \A p \in DOMAIN data : m >= data[p]

\* mutant: the limits -128 and 127 themselves are sent to int16
save_dtype_strict(data, is_int) ==
    IF is_int
    THEN IF ArrayMin(data) > -128 /\ ArrayMax(data) < 127 THEN "int8"
                                                          ELSE "int16"
    ELSE "float32"

\* 'int' in str(data.dtype) is is_int
save_dtype(data, is_int) ==
    IF is_int
    THEN IF ArrayMin(data) >= -128 /\ ArrayMax(data) <= 127 THEN "int8"
                                                            ELSE "int16"
    ELSE "float32"

save_nodata(is_int) == IF is_int THEN 0 ELSE NaN

save_raster(data, is_int, name) ==
    [written |-> TRUE, data |-> data, dtype |-> save_dtype(data, is_int),
     nodata |-> save_nodata(is_int), compress |-> "lzw", name |-> name]

(***************************************************************************)
(* Method 1: method_difference.                                            *)
(***************************************************************************)
\* diff = img_t2[0] - img_t1[0]
diff_of(img_t1, img_t2) ==
    [p \in DOMAIN img_t1[1] |-> Sub(img_t2[1][p], img_t1[1][p])]

\* mutant: the comparisons include the threshold itself
change_map_inclusive(diff, thr) ==
    [p \in DOMAIN diff |->
        IF Le(diff[p], -thr) THEN -1
        ELSE IF Le(thr, diff[p]) THEN 1
        ELSE 0]

\* change_map = zeros; [diff > threshold] = 1; [diff < -threshold] = -1
change_map_of(diff, thr) ==
    [p \in DOMAIN diff |->
        IF Lt(diff[p], -thr) THEN -1
        ELSE IF Gt(diff[p], thr) THEN 1
        ELSE 0]

count_nonzero(arr, S) == Cardinality({p \in DOMAIN arr : arr[p] \in S})

\* mutant: the statistics lines are written whatever the number of valid pixels
difference_stats_unguarded(log, diff, change_map, thr) ==
    LET total == Cardinality({p \in DOMAIN diff : isfinite(diff[p])})
        pos == count_nonzero(change_map, {1})
        neg == count_nonzero(change_map, {-1})
    IN  log_message(log_message(log, "Ganancia", pos, total),
                    "Perdida", neg, total)

\* the statistics lines, written only when some pixel is valid
difference_stats(log, diff, change_map, thr) ==
    LET total == Cardinality({p \in DOMAIN diff : isfinite(diff[p])})
        pos == count_nonzero(change_map, {1})
        neg == count_nonzero(change_map, {-1})
    IN  IF total > 0
        THEN log_message(log_message(log, "Ganancia", pos, total),
                         "Perdida", neg, total)
        ELSE log

method_difference(t1_path, t2_path, index_band, thr) ==
    LET log1 == log_message(metadata, "Metodo 1", index_band, 0)
    IN  /\ started' = started \cup {"diff"}
        /\ IF can_load(t1_path) /\ can_load(t2_path)
           THEN LET img_t1 == load_masked_image(t1_path, <<index_band>>)
                    img_t2 == load_masked_image(t2_path, <<index_band>>)
                    diff == diff_of(img_t1, img_t2)
                    change_map == change_map_of(diff, thr)
                    log2 == difference_stats(log1, diff, change_map, thr)
                IN  /\ locals' = Frame(t1_path, t2_path, 0, img_t1, img_t2, <<>>)
                    /\ outputs' = [outputs EXCEPT !["diff"] =
                           save_raster(change_map, TRUE, <<t1_path, t2_path>>)]
                    /\ metadata' = log_message(log2, "Guardado", 1, 0)
                    /\ result' = "ok"
           ELSE /\ metadata' = log1
                /\ result' = "raised"
                /\ locals' = Frame(t1_path, t2_path, 0, <<>>, <<>>, <<>>)
                /\ UNCHANGED outputs
        /\ inputs_read_only

(***************************************************************************)
(* Method 2: method_urban_classification.                                  *)
(***************************************************************************)
\* mutant: only the NDVI of the first year is required to be finite
valid_at_first_year(img_t1, img_t2, p) == isfinite(img_t1[1][p])

\* valid = np.isfinite(ndvi_t1) & np.isfinite(ndvi_t2)
valid_at(img_t1, img_t2, p) == isfinite(img_t1[1][p]) /\ isfinite(img_t2[1][p])

\* (ndvi_t1 > 0.3) & (ndbi_t2 > 0.0) & ((ndbi_t2 - ndbi_t1) > 0.1)
mask_urb(img_t1, img_t2, p) ==
    /\ Gt(img_t1[1][p], VegThreshold)
    /\ Gt(img_t2[2][p], ZeroThreshold)
    /\ Gt(Sub(img_t2[2][p], img_t1[2][p]), DeltaThreshold)

\* (ndvi_t1 > 0.3) & ((ndvi_t1 - ndvi_t2) > 0.1) & (ndbi_t2 <= 0.0)
mask_loss(img_t1, img_t2, p) ==
    /\ Gt(img_t1[1][p], VegThreshold)
    /\ Gt(Sub(img_t1[1][p], img_t2[1][p]), DeltaThreshold)
    /\ Le(img_t2[2][p], ZeroThreshold)

\* (ndvi_t2 > 0.3) & ((ndvi_t2 - ndvi_t1) > 0.1)
mask_gain(img_t1, img_t2, p) ==
    /\ Gt(img_t2[1][p], VegThreshold)
    /\ Gt(Sub(img_t2[1][p], img_t1[1][p]), DeltaThreshold)

\* (ndwi_t1 < 0.0) & (ndwi_t2 > 0.0)
mask_new_water(img_t1, img_t2, p) ==
    /\ Lt(img_t1[3][p], ZeroThreshold)
    /\ Gt(img_t2[3][p], ZeroThreshold)

\* mutant: the later rules forget the (clase == 0) condition and overwrite
clase_at_overwrite(img_t1, img_t2, p) ==
    LET valid == valid_at(img_t1, img_t2, p)
        c1 == IF mask_urb(img_t1, img_t2, p) /\ valid THEN 1 ELSE 0
        c2 == IF mask_loss(img_t1, img_t2, p) /\ valid THEN 2 ELSE c1
        c3 == IF mask_gain(img_t1, img_t2, p) /\ valid THEN 3 ELSE c2
        c4 == IF mask_new_water(img_t1, img_t2, p) /\ valid THEN 4 ELSE c3
    IN  c4

\* the four assignments to clase, in the order of the code
clase_at(img_t1, img_t2, p) ==
    LET valid == valid_at(img_t1, img_t2, p)
        c1 == IF mask_urb(img_t1, img_t2, p) /\ valid THEN 1 ELSE 0
        c2 == IF mask_loss(img_t1, img_t2, p) /\ valid /\ c1 = 0 THEN 2 ELSE c1
        c3 == IF mask_gain(img_t1, img_t2, p) /\ valid /\ c2 = 0 THEN 3 ELSE c2
        c4 == IF mask_new_water(img_t1, img_t2, p) /\ valid /\ c3 = 0 THEN 4 ELSE c3
    IN  c4

clase_of(img_t1, img_t2) ==
    [p \in DOMAIN img_t1[1] |-> clase_at(img_t1, img_t2, p)]

\* counts = np.bincount(clase[valid & (clase > 0)]): index 0..max class
bincount_len(img_t1, img_t2, clase) ==
    LET sel == {p \in DOMAIN clase : valid_at(img_t1, img_t2, p) /\ clase[p] > 0}
    IN  IF sel = {} THEN 0
        ELSE 1 + (CHOOSE m \in {clase[p] : p \in sel} :
                      \A p \in sel : clase[p] <= m)

bincount_at(img_t1, img_t2, clase, k) ==
    Cardinality({p \in DOMAIN clase :
                    valid_at(img_t1, img_t2, p) /\ clase[p] > 0 /\ clase[p] = k})

\* for k, v in labels.items(): if k < len(counts): log_message(...)
RECURSIVE urban_stats(_, _, _, _, _)
urban_stats(log, img_t1, img_t2, clase, k) ==
    IF k > 4 THEN log
    ELSE urban_stats(
             IF k < bincount_len(img_t1, img_t2, clase)
             THEN log_message(log, "Clase", k, bincount_at(img_t1, img_t2, clase, k))
             ELSE log,
             img_t1, img_t2, clase, k + 1)

method_urban_classification(t1_path, t2_path) ==
    LET log1 == log_message(metadata, "Metodo 2", 0, 0)
    IN  /\ started' = started \cup {"urban"}
        /\ IF can_load(t1_path) /\ can_load(t2_path)
           THEN LET img_t1 == load_masked_image(t1_path, <<1, 2, 3>>)
                    img_t2 == load_masked_image(t2_path, <<1, 2, 3>>)
                    clase == clase_of(img_t1, img_t2)
                    log2 == urban_stats(log1, img_t1, img_t2, clase, 1)
                IN  /\ locals' = Frame(t1_path, t2_path, 0, img_t1, img_t2, <<>>)
                    /\ outputs' = [outputs EXCEPT !["urban"] =
                           save_raster(clase, TRUE, <<t1_path, t2_path>>)]
                    /\ metadata' = log_message(log2, "Guardado", 2, 0)
                    /\ result' = "ok"
           ELSE /\ metadata' = log1
                /\ result' = "raised"
                /\ locals' = Frame(t1_path, t2_path, 0, <<>>, <<>>, <<>>)
                /\ UNCHANGED outputs
        /\ inputs_read_only

(***************************************************************************)
(* Method 3: method_anomaly.                                               *)
(***************************************************************************)
\* sorted(PROCESSED_DIR.glob("indices_*.tif")), as the sequence of years
RECURSIVE sorted_years(_, _)
sorted_years(y, last) ==
    IF y > last THEN <<>>
    ELSE (IF files[y].exists THEN <<y>> ELSE <<>>) \o sorted_years(y + 1, last)

all_files == sorted_years(MIN_YEAR, MAX_YEAR)

\* mutant: the target year is left in the history
history_files_all(target_year) == all_files

\* [f for f in all_files if str(target_year) not in f.name]
history_files(target_year) ==
    SelectSeq(all_files, LAMBDA y : y # target_year)

\* next((f for f in all_files if str(target_year) in f.name), None)
has_target_file(target_year) ==
    \E i \in DOMAIN all_files : all_files[i] = target_year

\* if not target_file or not history_files: error
missing_data(target_year) ==
    ~has_target_file(target_year) \/ history_files(target_year) = <<>>

\* the finite values of the stack at pixel p, as a sequence
RECURSIVE finite_at(_, _)
finite_at(stack, p) ==
    IF stack = <<>> THEN <<>>
    ELSE (IF isfinite(Head(stack)[p]) THEN <<Head(stack)[p]>> ELSE <<>>)
         \o finite_at(Tail(stack), p)

Squares(s) == [i \in DOMAIN s |-> s[i] * s[i]]

\* (current - nanmean) / (nanstd + 1e-6) at one pixel, in hundredths.
\* With n finite values of sum S and sum of squares Q:
\*   mean = S/n, std = sqrt(n*Q - S*S)/n, and 1e-6 is 1/10000 of a hundredth,
\*   so z = (n*current - S) / (sqrt(n*Q - S*S) + n/10000).
\* No finite value gives nanmean = NaN, hence NaN.
raw_z_score(vals, current) ==
    LET n == Len(vals)
        S == SumSeq(vals)
        Q == SumSeq(Squares(vals))
    IN  IF n = 0 \/ ~isfinite(current) THEN NaN
        ELSE Quot((n * current - S) * 1000000,
                  ISqrt((n * Q - S * S) * 10000) * 100 + n)

\* mutant: the values that are not finite are left in the grid
z_score_at_kept(stack, current, p) ==
    raw_z_score(finite_at(stack, p), current[p])

\* z_score[~np.isfinite(z_score)] = 0
z_score_at(stack, current, p) ==
    LET z == raw_z_score(finite_at(stack, p), current[p])
    IN  IF isfinite(z) THEN z ELSE 0

z_score_of(stack, current) ==
    [p \in DOMAIN current |-> z_score_at(stack, current, p)]

method_anomaly(target_year) ==
    LET log1 == log_message(metadata, "Metodo 3", target_year, 0)
        hist == history_files(target_year)
    IN  /\ started' = started \cup {"anomaly"}
        /\ IF missing_data(target_year)
           THEN /\ metadata' = log_message(log1, "Error: Faltan datos", 0, 0)
                /\ result' = "error"
                /\ locals' = Frame(0, 0, target_year, <<>>, <<>>, <<>>)
                /\ UNCHANGED outputs
           ELSE IF ~vector.exists
           THEN /\ metadata' = log1
                /\ result' = "raised"
                /\ locals' = Frame(0, 0, target_year, <<>>, <<>>, <<>>)
                /\ UNCHANGED outputs
           ELSE LET stack == [i \in DOMAIN hist |->
                                 load_masked_image(hist[i], <<1>>)[1]]
                    target_img == load_masked_image(target_year, <<1>>)
                    z_score == z_score_of(stack, target_img[1])
                IN  /\ locals' = Frame(0, 0, target_year, <<>>, target_img, stack)
                    /\ outputs' = [outputs EXCEPT !["anomaly"] =
                           save_raster(z_score, FALSE, <<target_year>>)]
                    /\ metadata' = log_message(log1, "Guardado", 3, 0)
                    /\ result' = "ok"
        /\ inputs_read_only

(***************************************************************************)
(* calculate_indices.py: calcular_indices.                                 *)
(*                                                                         *)
(* A raw band value is kept in hundredths of its stored number (20 is a    *)
(* reflectance of 0.20, 200000 is the digital number 2000) and is never    *)
(* negative.  A band divided by the scale factor is kept as the raw value  *)
(* beside the factor: its value is raw / (100 * factor).  All five bands   *)
(* share the factor, so their sum is zero exactly when the raw sum is, and *)
(* a normalized difference is the ratio of the raw values, the epsilon of  *)
(* 1e-10 being far below one hundredth wherever the denominator is not 0.  *)
(* The model follows the pixels at columns 0, 10, 20, ... of row 0.        *)
(***************************************************************************)
SampleSide == 10

PixelRow(p) == 0

PixelCol(p) == (p - 1) * 10

\* mutant: the whole band is taken as the sample
in_sample_whole_band(p) == TRUE

\* window=((0, 10), (0, 10)) of src.read(1, window=...)
in_sample(p) == PixelRow(p) < SampleSide /\ PixelCol(p) < SampleSide

\* np.max(sample)
sample_max(src) ==
    LET sample == {src.bands[1][p] : p \in {q \in DOMAIN src.bands[1] : in_sample(q)}}
    IN  CHOOSE m \in sample : \A v \in sample : v <= m

\* mutant: a sample maximum of exactly 1.5 already selects 10000
scale_factor_inclusive(src) == IF sample_max(src) >= 150 THEN 10000 ELSE 1

\* factor = 1.0; if np.max(sample) > 1.5: factor = 10000.0
scale_factor(src) == IF sample_max(src) > 150 THEN 10000 ELSE 1

\* src.read(b).astype(float) / factor: the raw values beside their divisor
read_scaled(src, b, factor) == [values |-> src.bands[b], factor |-> factor]

\* blue, green, red, nir, swir1 = bands 1..5, each divided by factor
scaled_bands(src, factor) == [b \in 1..5 |-> read_scaled(src, b, factor)]

\* mask = (blue + green + red + nir + swir1) == 0
zero_mask(src, p) ==
    src.bands[1][p] + src.bands[2][p] + src.bands[3][p] + src.bands[4][p]
        + src.bands[5][p] = 0

\* blue[mask] = np.nan
blue_of(src, p) == IF zero_mask(src, p) THEN NaN ELSE src.bands[1][p]

\* quotient rounded to the nearest integer, b > 0
RoundQuot(a, b) ==
    IF a >= 0 THEN (2 * a + b) \div (2 * b) ELSE -((2 * (-a) + b) \div (2 * b))

\* mutant: no epsilon in the denominator, 0 / 0 is NaN
index_ratio_no_eps(num, den) ==
    IF ~isfinite(num) \/ ~isfinite(den) THEN NaN
    ELSE IF den = 0 THEN NaN
    ELSE RoundQuot(100 * num, den)

\* num / (den + eps), in hundredths; den = 0 leaves num / eps with num = 0
index_ratio(num, den) ==
    IF ~isfinite(num) \/ ~isfinite(den) THEN NaN
    ELSE IF den = 0 THEN 0
    ELSE RoundQuot(100 * num, den)

\* ndvi = (nir - red) / (nir + red + eps)
ndvi_of(src, p) ==
    index_ratio(Sub(src.bands[4][p], src.bands[3][p]),
                Add(src.bands[4][p], src.bands[3][p]))

\* ndbi = (swir1 - nir) / (swir1 + nir + eps)
ndbi_of(src, p) ==
    index_ratio(Sub(src.bands[5][p], src.bands[4][p]),
                Add(src.bands[5][p], src.bands[4][p]))

\* ndwi = (green - nir) / (green + nir + eps)
ndwi_of(src, p) ==
    index_ratio(Sub(src.bands[2][p], src.bands[4][p]),
                Add(src.bands[2][p], src.bands[4][p]))

\* bsi = ((swir1 + red) - (nir + blue)) / ((swir1 + red) + (nir + blue) + eps)
bsi_of(src, p) ==
    index_ratio(Sub(Add(src.bands[5][p], src.bands[3][p]),
                    Add(src.bands[4][p], blue_of(src, p))),
                Add(Add(src.bands[5][p], src.bands[3][p]),
                    Add(src.bands[4][p], blue_of(src, p))))

\* the four bands written to ruta_salida
index_bands(src) ==
    << [p \in DOMAIN src.bands[1] |-> ndvi_of(src, p)],
       [p \in DOMAIN src.bands[1] |-> ndbi_of(src, p)],
       [p \in DOMAIN src.bands[1] |-> ndwi_of(src, p)],
       [p \in DOMAIN src.bands[1] |-> bsi_of(src, p)] >>

RECURSIVE finite_of(_)
finite_of(band) ==
    IF band = <<>> THEN <<>>
    ELSE (IF isfinite(Head(band)) THEN <<Head(band)>> ELSE <<>>)
         \o finite_of(Tail(band))

\* np.nanmean(band): NaN when no value is finite
nanmean(band) ==
    LET vals == finite_of(band)
    IN  IF vals = <<>> THEN NaN ELSE RoundQuot(SumSeq(vals), Len(vals))

\* rasterio.open(ruta_imagen) succeeds and src.read(5) finds its band
can_read(src) == src.exists /\ Len(src.bands) >= 5

\* mutant: an index file that already exists is kept instead of rewritten
calcular_indices_keeps_existing(ruta_imagen, ruta_salida) ==
    LET src == raw[ruta_imagen]
    IN  /\ IF can_read(src)
           THEN LET bands == index_bands(src)
                IN  /\ files' = IF files[ruta_salida].exists THEN files
                                ELSE [files EXCEPT ![ruta_salida] =
                                         [exists |-> TRUE, bands |-> bands]]
                    /\ locals' = [ruta_imagen |-> ruta_imagen,
                                  ruta_salida |-> ruta_salida,
                                  factor |-> scale_factor(src),
                                  scaled |-> scaled_bands(src, scale_factor(src)),
                                  stats |-> [i \in 1..4 |-> nanmean(bands[i])]]
                    /\ result' = "ok"
           ELSE /\ locals' = [ruta_imagen |-> ruta_imagen,
                              ruta_salida |-> ruta_salida,
                              factor |-> 0, scaled |-> <<>>,
                              stats |-> <<>>]
                /\ result' = "raised"
                /\ UNCHANGED files
        /\ UNCHANGED <<vector, outputs, metadata, started, raw>>

\* mutant: the destination is opened for writing before the source is read
calcular_indices_opens_first(ruta_imagen, ruta_salida) ==
    LET src == raw[ruta_imagen]
    IN  /\ IF can_read(src)
           THEN LET bands == index_bands(src)
                IN  /\ files' = [files EXCEPT ![ruta_salida] =
                                    [exists |-> TRUE, bands |-> bands]]
                    /\ locals' = [ruta_imagen |-> ruta_imagen,
                                  ruta_salida |-> ruta_salida,
                                  factor |-> scale_factor(src),
                                  scaled |-> scaled_bands(src, scale_factor(src)),
                                  stats |-> [i \in 1..4 |-> nanmean(bands[i])]]
                    /\ result' = "ok"
           ELSE /\ locals' = [ruta_imagen |-> ruta_imagen,
                              ruta_salida |-> ruta_salida,
                              factor |-> 0, scaled |-> <<>>,
                              stats |-> <<>>]
                /\ result' = "raised"
                /\ files' = [files EXCEPT ![ruta_salida] =
                                 [exists |-> TRUE, bands |-> <<>>]]
        /\ UNCHANGED <<vector, outputs, metadata, started, raw>>

calcular_indices(ruta_imagen, ruta_salida) ==
    LET src == raw[ruta_imagen]
    IN  /\ IF can_read(src)
           THEN LET bands == index_bands(src)
                IN  /\ files' = [files EXCEPT ![ruta_salida] =
                                    [exists |-> TRUE, bands |-> bands]]
                    /\ locals' = [ruta_imagen |-> ruta_imagen,
                                  ruta_salida |-> ruta_salida,
                                  factor |-> scale_factor(src),
                                  scaled |-> scaled_bands(src, scale_factor(src)),
                                  stats |-> [i \in 1..4 |-> nanmean(bands[i])]]
                    /\ result' = "ok"
           ELSE /\ locals' = [ruta_imagen |-> ruta_imagen,
                              ruta_salida |-> ruta_salida,
                              factor |-> 0, scaled |-> <<>>,
                              stats |-> <<>>]
                /\ result' = "raised"
                /\ UNCHANGED files
        /\ UNCHANGED <<vector, outputs, metadata, started, raw>>

(***************************************************************************)
(* Entry point of detect_changes.py (python scripts/detect_changes.py).    *)
(***************************************************************************)
Methods == {"diff", "urban", "anomaly", "all"}

\* lines 61-65: executed when the module is loaded, before argparse
ModuleInit ==
    /\ pc = "import"
    /\ metadata' = Header
    /\ pc' = "validate"
    /\ UNCHANGED <<files, vector, outputs, stdout, args, exitStatus, started,
                   result, locals, raw, batch_vars>>

years_in_range ==
    /\ MIN_YEAR <= args.t1 /\ args.t1 <= MAX_YEAR
    /\ MIN_YEAR <= args.t2 /\ args.t2 <= MAX_YEAR

\* mutant: equal years pass the check
base_after_target == args.t1 > args.t2

\* if args.t1 >= args.t2: exit
base_not_before_target == args.t1 >= args.t2

\* file_t1.exists() and file_t2.exists()
index_files_exist == files[args.t1].exists /\ files[args.t2].exists

\* lines 464-488: the three validations, then the start message
Validate ==
    /\ pc = "validate"
    /\ IF ~years_in_range
       THEN /\ stdout' = Append(stdout, "Error: rango de anios")
            /\ exitStatus' = 1
            /\ pc' = "exited"
       ELSE IF base_not_before_target
       THEN /\ stdout' = Append(stdout, "Error Logico")
            /\ exitStatus' = 1
            /\ pc' = "exited"
       ELSE IF ~index_files_exist
       THEN /\ stdout' = Append(stdout, "Error: Faltan archivos")
            /\ exitStatus' = 1
            /\ pc' = "exited"
       ELSE /\ stdout' = Append(stdout, "Iniciando")
            /\ pc' = "diff"
            /\ UNCHANGED exitStatus
    /\ UNCHANGED <<files, vector, outputs, metadata, args, started, result,
                   locals, raw, batch_vars>>

\* an exception nobody catches ends the interpreter with status 1
after_call(next_pc) ==
    /\ pc' = IF result' = "raised" THEN "exited" ELSE next_pc
    /\ exitStatus' = IF result' = "raised" THEN 1 ELSE exitStatus
    /\ UNCHANGED <<stdout, args, batch_vars>>

skip_to(next_pc) ==
    /\ pc' = next_pc
    /\ UNCHANGED <<files, vector, outputs, metadata, stdout, args, exitStatus,
                   started, result, locals, raw, batch_vars>>

\* lines 491-492
RunDifference ==
    /\ pc = "diff"
    /\ IF args.method \in {"diff", "all"}
       THEN /\ method_difference(args.t1, args.t2, 1, threshold)
            /\ after_call("urban")
       ELSE skip_to("urban")

\* lines 495-496
RunUrban ==
    /\ pc = "urban"
    /\ IF args.method \in {"urban", "all"}
       THEN /\ method_urban_classification(args.t1, args.t2)
            /\ after_call("anomaly")
       ELSE skip_to("anomaly")

\* lines 499-500
RunAnomaly ==
    /\ pc = "anomaly"
    /\ IF args.method \in {"anomaly", "all"}
       THEN /\ method_anomaly(args.t2)
            /\ after_call("finish")
       ELSE skip_to("finish")

\* line 503, then the script ends normally
Finish ==
    /\ pc = "finish"
    /\ stdout' = Append(stdout, "Proceso finalizado")
    /\ exitStatus' = 0
    /\ pc' = "exited"
    /\ UNCHANGED <<files, vector, outputs, metadata, args, started, result,
                   locals, raw, batch_vars>>

(***************************************************************************)
(* Inputs.                                                                 *)
(***************************************************************************)
\* stored index values, in hundredths
NdviVals == {NaN, 0, 15, 30, 40, 45, 60}

NdbiVals == {-20, 0, 10, 20}

NdwiVals == {-10, 0, 10}

\* a one-pixel index stack (NDVI, NDBI, NDWI, BSI)
IndexFile(ndvi, ndbi, ndwi) ==
    [exists |-> TRUE, bands |-> << <<ndvi>>, <<ndbi>>, <<ndwi>>, <<NaN>> >>]

RichFiles == {IndexFile(a, b, c) : a \in NdviVals, b \in NdbiVals, c \in NdwiVals}

NdviFiles == {IndexFile(a, 10, -10) : a \in NdviVals}

SampleFiles == {IndexFile(15, -20, -10), IndexFile(45, 10, 10)}

\* the boundary file: absent, or present with the pixel inside or outside
Vectors ==
    {[exists |-> FALSE, inside |-> <<FALSE>>]}
    \cup {[exists |-> TRUE, inside |-> <<b>>] : b \in BOOLEAN}

ArgYears == (MIN_YEAR - YearMargin)..(MAX_YEAR + YearMargin)

FileYears == MIN_YEAR..(MIN_YEAR + NFileYears - 1)

OldLogs == {<<>>, <<Entry("linea de una ejecucion anterior", 0, 0)>>}

NoRaw == [y \in Years |-> NoFile]

InitCommon ==
    /\ outputs = [k \in Kinds |-> NoOutput]
    /\ stdout = <<>>
    /\ exitStatus = Running
    /\ started = {}
    /\ result = "none"
    /\ locals = NoLocals
    /\ index_log = <<>>
    /\ imagenes = <<>>
    /\ attempts = <<>>

\* the command line and the data directory as the script finds them
Init ==
    /\ InitCommon
    /\ vector \in Vectors
    /\ \E present \in [FileYears -> SampleFiles \cup {NoFile}] :
           files = [y \in Years |-> IF y \in FileYears THEN present[y] ELSE NoFile]
    /\ metadata \in OldLogs
    /\ args \in [t1 : ArgYears, t2 : ArgYears, method : Methods]
    /\ raw = NoRaw
    /\ pc = "import"

Next ==
    \/ ModuleInit
    \/ Validate
    \/ RunDifference
    \/ RunUrban
    \/ RunAnomaly
    \/ Finish

Spec == Init /\ [][Next]_vars

(***************************************************************************)
(* The detection functions called directly (module imported, one call).    *)
(***************************************************************************)
YearA == MIN_YEAR

YearB == MIN_YEAR + 1

LibYears == MIN_YEAR..(MIN_YEAR + MaxHist)

NoArgs == [t1 |-> YearA, t2 |-> YearB, method |-> "all"]

\* two years with every combination of the three indices
InitPair ==
    \E a \in RichFiles, b \in RichFiles :
        files = [y \in Years |-> IF y = YearA THEN a
                                 ELSE IF y = YearB THEN b ELSE NoFile]

\* a series of 0..MaxHist+1 consecutive years of NDVI
InitSeries ==
    \E k \in 0..(MaxHist + 1) :
        \E series \in [MIN_YEAR..(MIN_YEAR + k - 1) -> NdviFiles] :
            files = [y \in Years |-> IF y < MIN_YEAR + k THEN series[y]
                                                         ELSE NoFile]

InitLib ==
    /\ InitCommon
    /\ vector \in Vectors
    /\ InitPair \/ InitSeries
    /\ metadata = Header
    /\ args = NoArgs
    /\ raw = NoRaw
    /\ pc = "lib"

returned ==
    pc' = "returned" /\ UNCHANGED <<stdout, args, exitStatus, batch_vars>>

CallDifference ==
    /\ pc = "lib"
    /\ method_difference(YearA, YearB, 1, threshold)
    /\ returned

CallUrban ==
    /\ pc = "lib"
    /\ method_urban_classification(YearA, YearB)
    /\ returned

CallAnomaly ==
    /\ pc = "lib"
    /\ \E target_year \in LibYears : method_anomaly(target_year)
    /\ returned

NextLib == CallDifference \/ CallUrban \/ CallAnomaly

SpecLib == InitLib /\ [][NextLib]_vars

(***************************************************************************)
(* calcular_indices called on one source raster of two followed pixels,    *)
(* the first inside the sample window, the second outside it.              *)
(***************************************************************************)
BlueVals == {0, 20, 150, 200, 200000}

GreenVals == {0, 20}

RedVals == {0, 20, 50}

NirVals == {0, 50, 200000}

SwirVals == {0, 50}

RawPixels ==
    {<<b, g, r, n, s>> : b \in BlueVals, g \in GreenVals, r \in RedVals,
                         n \in NirVals, s \in SwirVals}

\* the 6-band source raster holding pixels x and y (band 6, SWIR2, is not read)
RawFile(x, y) ==
    [exists |-> TRUE,
     bands |-> [b \in 1..6 |-> IF b = 6 THEN <<0, 0>> ELSE <<x[b], y[b]>>]]

\* a source raster with four bands only
ShortFile == [exists |-> TRUE, bands |-> [b \in 1..4 |-> <<20, 20>>]]

InitIndices ==
    /\ InitCommon
    /\ vector \in {v \in Vectors : v.exists /\ v.inside[1]}
    /\ \E src \in {RawFile(x, y) : x \in RawPixels, y \in RawPixels}
                  \cup {ShortFile, NoFile} :
           raw = [y \in Years |-> IF y = MIN_YEAR THEN src ELSE NoFile]
    /\ \E old \in SampleFiles \cup {NoFile} :
           files = [y \in Years |-> IF y = MIN_YEAR THEN old ELSE NoFile]
    /\ metadata = <<>>
    /\ args = NoArgs
    /\ pc = "lib"

CallCalcularIndices ==
    /\ pc = "lib"
    /\ calcular_indices(MIN_YEAR, MIN_YEAR)
    /\ returned

NextIndices == CallCalcularIndices

SpecIndices == InitIndices /\ [][NextIndices]_vars

(***************************************************************************)
(* Entry point of calculate_indices.py (python scripts/calculate_indices.py): *)
(* every source raster of data/raw is processed in turn.                   *)
(***************************************************************************)
\* number of years (from MIN_YEAR on) whose source raster may exist
NRawYears == 3

\* the heading written when the module is loaded
IndexHeader == <<[filename |-> "METADATOS DE INDICES ESPECTRALES", year |-> 0,
                  stats |-> <<>>]>>

\* log_metadata: one block appended to metadata.txt
log_metadata(log, filename, year, stats) ==
    Append(log, [filename |-> filename, year |-> year, stats |-> stats])

\* sorted(list(RAW_DIR.glob("sentinel2_*.tif"))), as the sequence of years
RECURSIVE sorted_raw(_, _)
sorted_raw(y, last) ==
    IF y > last THEN <<>>
    ELSE (IF raw[y].exists THEN <<y>> ELSE <<>>) \o sorted_raw(y + 1, last)

\* lines 39-46: executed when the module is loaded
BatchImport ==
    /\ pc = "import"
    /\ index_log' = IndexHeader
    /\ pc' = "main"
    /\ UNCHANGED <<files, vector, outputs, metadata, stdout, args, exitStatus,
                   started, result, locals, raw, imagenes, attempts>>

\* lines 203-219: the start message, the search, exit() when nothing is found
BatchGlob ==
    /\ pc = "main"
    /\ imagenes' = sorted_raw(MIN_YEAR, MAX_YEAR)
    /\ IF imagenes' = <<>>
       THEN /\ stdout' = stdout \o <<"Iniciando calculo",
                                     "No se encontraron imagenes">>
            /\ exitStatus' = 0
            /\ pc' = "exited"
       ELSE /\ stdout' = Append(stdout, "Iniciando calculo")
            /\ pc' = "loop"
            /\ UNCHANGED exitStatus
    /\ UNCHANGED <<files, vector, outputs, metadata, args, started, result,
                   locals, raw, index_log, attempts>>

\* mutant: no try/except around the body, an exception ends the script
ProcessImageUncaught ==
    /\ pc = "loop"
    /\ Len(attempts) < Len(imagenes)
    /\ LET img == imagenes[Len(attempts) + 1]
       IN  /\ attempts' = Append(attempts, img)
           /\ calcular_indices(img, img)
           /\ IF result' = "ok"
              THEN /\ index_log' = log_metadata(index_log, img, img, locals'.stats)
                   /\ pc' = "loop"
                   /\ UNCHANGED exitStatus
              ELSE /\ pc' = "exited"
                   /\ exitStatus' = 1
                   /\ UNCHANGED index_log
    /\ UNCHANGED <<stdout, args, imagenes>>

\* lines 226-241: one iteration of the loop; the year in the name of the
\* image names the output, an exception is printed and the loop goes on
ProcessImage ==
    /\ pc = "loop"
    /\ Len(attempts) < Len(imagenes)
    /\ LET img == imagenes[Len(attempts) + 1]
       IN  /\ attempts' = Append(attempts, img)
           /\ calcular_indices(img, img)
           /\ IF result' = "ok"
              THEN /\ index_log' = log_metadata(index_log, img, img, locals'.stats)
                   /\ UNCHANGED stdout
              ELSE /\ stdout' = Append(stdout, "Error procesando")
                   /\ UNCHANGED index_log
    /\ UNCHANGED <<pc, args, exitStatus, imagenes>>

\* line 244: the list is exhausted, the completion message is printed
BatchComplete ==
    /\ pc = "loop"
    /\ Len(attempts) = Len(imagenes)
    /\ stdout' = Append(stdout, "Proceso completado")
    /\ exitStatus' = 0
    /\ pc' = "exited"
    /\ UNCHANGED <<files, vector, outputs, metadata, args, started, result,
                   locals, raw, index_log, imagenes, attempts>>

RawYears == MIN_YEAR..(MIN_YEAR + NRawYears - 1)

\* a file that rasterio cannot open
CorruptFile == [exists |-> TRUE, bands |-> <<>>]

\* source rasters: reflectances, digital numbers, four bands only, unreadable
BatchRawFiles ==
    {RawFile(<<20, 20, 20, 50, 50>>, <<20, 20, 50, 0, 50>>),
     RawFile(<<200000, 0, 0, 200000, 0>>, <<0, 0, 0, 0, 0>>),
     ShortFile, CorruptFile}

InitBatch ==
    /\ InitCommon
    /\ vector \in {v \in Vectors : v.exists /\ v.inside[1]}
    /\ \E present \in [RawYears -> BatchRawFiles \cup {NoFile}] :
           raw = [y \in Years |-> IF y \in RawYears THEN present[y] ELSE NoFile]
    /\ \E old \in {IndexFile(15, -20, -10), NoFile} :
           files = [y \in Years |-> IF y = MIN_YEAR THEN old ELSE NoFile]
    /\ metadata = <<>>
    /\ args = NoArgs
    /\ pc = "import"

NextBatch == BatchImport \/ BatchGlob \/ ProcessImage \/ BatchComplete

\* the interpreter keeps executing the script until it ends
SpecBatch == InitBatch /\ [][NextBatch]_vars /\ WF_vars(NextBatch)

(***************************************************************************)
(* save_raster called directly on one array.                               *)
(***************************************************************************)
\* largest number of pixels of the array handed to save_raster
SaveLen == 2

\* values of an integer array, around the limits of int8
IntVals == {-200, -129, -128, -1, 0, 1, 127, 128, 200}

\* values of a floating-point array (hundredths), NaN included
FloatVals == {NaN, -300, -50, 0, 127, 860}

ArraysOf(vals) ==
    UNION {[1..n -> vals] : n \in 1..SaveLen}

InitSave ==
    /\ InitCommon
    /\ vector \in {v \in Vectors : v.exists /\ v.inside[1]}
    /\ files = [y \in Years |-> NoFile]
    /\ metadata = Header
    /\ args = NoArgs
    /\ raw = NoRaw
    /\ pc = "lib"

\* save_raster(data, profile, output_path): the file and its log line
CallSaveRaster ==
    /\ pc = "lib"
    /\ \E is_int \in BOOLEAN, k \in Kinds :
           \E data \in (IF is_int THEN ArraysOf(IntVals) ELSE ArraysOf(FloatVals)) :
               /\ outputs' = [outputs EXCEPT ![k] = save_raster(data, is_int, <<k>>)]
               /\ locals' = [data |-> data, is_int |-> is_int, output_path |-> k]
    /\ metadata' = log_message(metadata, "Guardado", 0, 0)
    /\ result' = "ok"
    /\ returned
    /\ UNCHANGED <<files, vector, started, raw>>

NextSave == CallSaveRaster

SpecSave == InitSave /\ [][NextSave]_vars

(***************************************************************************)
(* method_difference called on the same index stack for both years, for    *)
(* each of its bands and several thresholds.                               *)
(***************************************************************************)
\* thresholds handed to method_difference, in hundredths
Thresholds == {0, 15, 100}

InitSame ==
    /\ InitCommon
    /\ vector \in Vectors
    /\ \E a \in RichFiles :
           files = [y \in Years |-> IF y \in {YearA, YearB} THEN a ELSE NoFile]
    /\ metadata = Header
    /\ args = NoArgs
    /\ raw = NoRaw
    /\ pc = "lib"

CallDifferenceSame ==
    /\ pc = "lib"
    /\ \E index_band \in 1..3, thr \in Thresholds :
           method_difference(YearA, YearB, index_band, thr)
    /\ returned

NextSame == CallDifferenceSame

SpecSame == InitSame /\ [][NextSame]_vars

(***************************************************************************)
(* method_difference and method_urban_classification called on two index   *)
(* stacks of the same shape whose georeference (CRS and transform) may     *)
(* differ.  The georeference is carried by the file; no operation reads it *)
(* except to copy the profile of the first year to the output.             *)
(***************************************************************************)
Grids == {"EPSG:32719 10m", "EPSG:32719 20m", "EPSG:4326"}

\* an index stack with its CRS and transform
GridFile(f, g) == [exists |-> f.exists, bands |-> f.bands, grid |-> g]

InitGrid ==
    /\ InitCommon
    /\ vector \in Vectors
    /\ \E a \in SampleFiles, b \in SampleFiles, ga \in Grids, gb \in Grids :
           files = [y \in Years |-> IF y = YearA THEN GridFile(a, ga)
                                    ELSE IF y = YearB THEN GridFile(b, gb)
                                    ELSE NoFile]
    /\ metadata = Header
    /\ args = NoArgs
    /\ raw = NoRaw
    /\ pc = "lib"

NextGrid == CallDifference \/ CallUrban

SpecGrid == InitGrid /\ [][NextGrid]_vars

(***************************************************************************)
(* calcular_indices called several times on one source raster, towards two *)
(* destinations that hold different content beforehand; attempts records   *)
(* the destination of each call.                                           *)
(***************************************************************************)
\* number of calls of calcular_indices
MaxCalls == 2

RerunPixels ==
    {<<20, 20, 20, 50, 50>>, <<0, 0, 0, 0, 0>>,
     <<200000, 20, 50, 200000, 0>>, <<150, 0, 50, 0, 50>>}

Destinations == {MIN_YEAR, MIN_YEAR + 1}

InitRerun ==
    /\ InitCommon
    /\ vector \in {v \in Vectors : v.exists /\ v.inside[1]}
    /\ \E src \in {RawFile(x, y) : x \in RerunPixels, y \in RerunPixels}
                  \cup {ShortFile} :
           raw = [y \in Years |-> IF y = MIN_YEAR THEN src ELSE NoFile]
    /\ \E old \in [Destinations -> SampleFiles \cup {NoFile}] :
           files = [y \in Years |-> IF y \in Destinations THEN old[y] ELSE NoFile]
    /\ metadata = <<>>
    /\ args = NoArgs
    /\ pc = "lib"

CallCalcularIndicesAgain ==
    /\ pc = "lib"
    /\ Len(attempts) < MaxCalls
    /\ \E ruta_salida \in Destinations :
           /\ calcular_indices(MIN_YEAR, ruta_salida)
           /\ attempts' = Append(attempts, ruta_salida)
    /\ UNCHANGED <<stdout, args, pc, exitStatus, index_log, imagenes>>

NextRerun == CallCalcularIndicesAgain

SpecRerun == InitRerun /\ [][NextRerun]_vars

(***************************************************************************)
(* method_anomaly called on a series of NDVI values around 0.2 (the        *)
(* history 0.20, 0.25, 0.22 with the target 0.40 is one of the series).    *)
(***************************************************************************)
ScenarioVals == {NaN, 20, 22, 25, 40}

ScenarioFiles == {IndexFile(a, 10, -10) : a \in ScenarioVals}

InitScenario ==
    /\ InitCommon
    /\ vector \in Vectors
    /\ \E k \in 0..(MaxHist + 1) :
           \E series \in [MIN_YEAR..(MIN_YEAR + k - 1) -> ScenarioFiles] :
               files = [y \in Years |-> IF y < MIN_YEAR + k THEN series[y]
                                                            ELSE NoFile]
    /\ metadata = Header
    /\ args = NoArgs
    /\ raw = NoRaw
    /\ pc = "lib"

NextScenario == CallAnomaly

SpecScenario == InitScenario /\ [][NextScenario]_vars

(***************************************************************************)
(* Properties.                                                             *)
(*                                                                         *)
(* The rule table of the classifier as the specification states it, on a   *)
(* pixel given by its (NDVI, NDBI, NDWI) in year A and in year B.  A NaN   *)
(* operand makes a comparison false.                                       *)
(***************************************************************************)
Rule(k, a, b) ==
    CASE k = 1 -> /\ isfinite(a[1]) /\ a[1] > 30
                  /\ isfinite(b[2]) /\ b[2] > 0
                  /\ isfinite(a[2]) /\ b[2] - a[2] > 10
      [] k = 2 -> /\ isfinite(a[1]) /\ a[1] > 30
                  /\ isfinite(b[1]) /\ a[1] - b[1] > 10
                  /\ isfinite(b[2]) /\ b[2] <= 0
      [] k = 3 -> /\ isfinite(b[1]) /\ b[1] > 30
                  /\ isfinite(a[1]) /\ b[1] - a[1] > 10
      [] k = 4 -> /\ isfinite(a[3]) /\ a[3] < 0
                  /\ isfinite(b[3]) /\ b[3] > 0

\* first matching rule wins, 0 if none matches or NDVI is not finite
RuleTable(a, b) ==
    IF ~(isfinite(a[1]) /\ isfinite(b[1])) THEN 0
    ELSE IF Rule(1, a, b) THEN 1
    ELSE IF Rule(2, a, b) THEN 2
    ELSE IF Rule(3, a, b) THEN 3
    ELSE IF Rule(4, a, b) THEN 4
    ELSE 0

\* the three indices of pixel p of a 3-band image
PixelOf(img, p) == <<img[1][p], img[2][p], img[3][p]>>

UrbanDone ==
    pc = "returned" /\ started = {"urban"} /\ result = "ok"

DifferenceDone ==
    pc = "returned" /\ started = {"diff"} /\ result = "ok"

AnomalyCalled == pc = "returned" /\ started = {"anomaly"}

\* C1: method_urban_classification gives every pixel one class of 0..4, and
\* a pixel of class k > 0 satisfies rule k on the loaded values and none of
\* the rules 1..k-1.
C1_OneClassByPriority ==
    UrbanDone =>
        \A p \in DOMAIN outputs["urban"].data :
            LET c == outputs["urban"].data[p]
                a == PixelOf(locals.img_t1, p)
                b == PixelOf(locals.img_t2, p)
            IN  /\ c \in 0..4
                /\ c > 0 => Rule(c, a, b)
                /\ \A j \in 1..(c - 1) : ~Rule(j, a, b)

\* C1 witness: a pixel classified 3 (gain) whose values also satisfy rule 4
C1_Witness ==
    /\ UrbanDone
    /\ outputs["urban"].data[1] = 3
    /\ Rule(4, PixelOf(locals.img_t1, 1), PixelOf(locals.img_t2, 1))

\* C2: inside the boundary the class written equals the rule table applied
\* to the values stored in the two index stacks.
C2_ClassOfStoredValues ==
    UrbanDone =>
        \A p \in DOMAIN outputs["urban"].data :
            vector.inside[p] =>
                outputs["urban"].data[p] =
                    RuleTable(PixelOf(files[locals.t1_path].bands, p),
                              PixelOf(files[locals.t2_path].bands, p))

\* C3: method_difference writes +1 where diff > threshold, -1 where
\* diff < -threshold, 0 elsewhere (diff = B - A on the loaded values), and 0
\* where either year is NaN.
C3_DifferenceClasses ==
    DifferenceDone =>
        \A p \in DOMAIN outputs["diff"].data :
            LET a == locals.img_t1[1][p]
                b == locals.img_t2[1][p]
                c == outputs["diff"].data[p]
            IN  IF a = NaN \/ b = NaN THEN c = 0
                ELSE /\ (b - a > 15) => c = 1
                     /\ (b - a < -15) => c = -1
                     /\ (-15 <= b - a /\ b - a <= 15) => c = 0

\* C3 witness: a difference exactly equal to the threshold, classified 0
C3_Witness ==
    /\ DifferenceDone
    /\ locals.img_t1[1][1] # NaN /\ locals.img_t2[1][1] # NaN
    /\ locals.img_t2[1][1] - locals.img_t1[1][1] = 15
    /\ outputs["diff"].data[1] = 0

\* C4: outside the boundary polygon the integer outputs of method_difference
\* and method_urban_classification hold the integer nodata value 0.
C4_OutsideIsIntegerNodata ==
    \A k \in {"diff", "urban"} :
        outputs[k].written =>
            /\ outputs[k].nodata = 0
            /\ \A p \in DOMAIN outputs[k].data :
                   ~vector.inside[p] => outputs[k].data[p] = 0

\* C4 witness: a pixel outside the polygon whose stored values satisfy a rule
C4_Witness ==
    /\ UrbanDone
    /\ ~vector.inside[1]
    /\ RuleTable(PixelOf(files[YearA].bands, 1), PixelOf(files[YearB].bands, 1)) = 1
    /\ outputs["urban"].data[1] = 0

\* C5: outside the boundary polygon the output of method_anomaly is NaN.
C5_OutsideIsNaN ==
    outputs["anomaly"].written =>
        \A p \in DOMAIN outputs["anomaly"].data :
            ~vector.inside[p] => outputs["anomaly"].data[p] = NaN

\* C7: load_masked_image keeps the shape of the raster, a pixel of its result
\* is NaN exactly when it lies outside the polygon or is NaN in the source,
\* and every pixel inside keeps its stored value.
C7_MaskKeepsInsideValues ==
    UrbanDone =>
        LET src == files[locals.t2_path].bands
            img == locals.img_t2
        IN  \A i \in 1..3 :
                /\ DOMAIN img[i] = DOMAIN src[i]
                /\ \A p \in DOMAIN img[i] :
                       /\ (img[i][p] = NaN) <=> (~vector.inside[p] \/ src[i][p] = NaN)
                       /\ vector.inside[p] => img[i][p] = src[i][p]

\* number of historical (non-target) index rasters on disk
NHistory(target_year) ==
    Cardinality({y \in Years : files[y].exists /\ y # target_year})

\* C8: method_anomaly writes no raster and reports a failure whenever fewer
\* than two historical rasters are available or the target raster is absent.
C8_InsufficientHistoryFails ==
    (/\ AnomalyCalled
     /\ \/ NHistory(locals.target_year) < 2
        \/ ~files[locals.target_year].exists)
    => /\ ~outputs["anomaly"].written
       /\ result \in {"error", "raised"}

\* the successful-completion message of the entry point
SuccessPrinted == \E i \in DOMAIN stdout : stdout[i] = "Proceso finalizado"

\* a detection invocation failed: a method raised or reported an error, or
\* the anomaly detector was run without the history it needs
InvocationFailed ==
    \/ result \in {"error", "raised"}
    \/ /\ "anomaly" \in started
       /\ \/ NHistory(locals.target_year) < 2
          \/ ~files[locals.target_year].exists

\* C9: when a change-detection invocation fails, the process ends with a
\* non-zero exit status and never prints the completion message.
C9_FailureExitsNonZero ==
    InvocationFailed =>
        /\ ~SuccessPrinted
        /\ pc = "exited" => exitStatus # 0

\* the command line names two years in range, in order, with their files
ValidInvocation ==
    /\ args.t1 \in MIN_YEAR..MAX_YEAR
    /\ args.t2 \in MIN_YEAR..MAX_YEAR
    /\ args.t1 < args.t2
    /\ files[args.t1].exists /\ files[args.t2].exists

\* C10: a detection method runs (and a change raster is written) only for a
\* valid invocation; any other invocation exits with status 1 before any
\* method is executed.
C10_MethodsOnlyAfterValidation ==
    /\ (started # {} \/ \E k \in Kinds : outputs[k].written) => ValidInvocation
    /\ ~ValidInvocation =>
           /\ pc \in {"import", "validate", "exited"}
           /\ pc = "exited" => exitStatus = 1

\* C10 witness: years in range and ordered, a file missing, exit with 1
C10_Witness ==
    /\ pc = "exited" /\ exitStatus = 1 /\ started = {}
    /\ args.t1 \in MIN_YEAR..MAX_YEAR /\ args.t2 \in MIN_YEAR..MAX_YEAR
    /\ args.t1 < args.t2
    /\ files[args.t1].exists /\ ~files[args.t2].exists

IndicesDone == pc = "returned" /\ started = {} /\ result = "ok" /\ raw[MIN_YEAR].exists

\* all five index-relevant bands are zero at pixel p of the source raster
AllZero(src, p) == \A b \in 1..5 : src.bands[b][p] = 0

\* C6: a pixel whose Blue, Green, Red, NIR and SWIR1 are all zero is NaN in
\* all four bands of the index stack written by calcular_indices.
C6_ZeroPixelIsNaN ==
    IndicesDone =>
        \A p \in DOMAIN raw[MIN_YEAR].bands[1] :
            AllZero(raw[MIN_YEAR], p) =>
                \A i \in 1..4 : files[MIN_YEAR].bands[i][p] = NaN

(***************************************************************************)
(* Entry point: rejected command lines and the run log.                    *)
(***************************************************************************)
\* the command line fails the year-range check or the order check
ArgsRejected ==
    \/ args.t1 \notin MIN_YEAR..MAX_YEAR
    \/ args.t2 \notin MIN_YEAR..MAX_YEAR
    \/ args.t1 >= args.t2

\* C11: an invocation whose command line is rejected (a year out of bounds,
\* or t1 >= t2) exits with a non-zero status and no step of it creates,
\* truncates or modifies a file, the run log of a previous invocation
\* included.
C11_RejectedTouchesNoFile ==
    [][ArgsRejected =>
           /\ UNCHANGED <<files, outputs, metadata, raw, vector>>
           /\ pc' = "exited" => exitStatus' # 0]_vars


\* s is an initial segment of t
IsPrefix(s, t) == Len(s) <= Len(t) /\ SubSeq(t, 1, Len(s)) = s

\* C12: within one invocation the run log is truncated once, by the step
\* that loads the module, before any entry is appended; every later step
\* leaves the lines already written in place and only appends entries to
\* them (one line when the method fails right after its first log_message
\* call), so the log only grows.
C12_LogOnlyGrows ==
    [][/\ pc = "import" => metadata' = Header
       /\ pc # "import" =>
              /\ IsPrefix(Header, metadata)
              /\ IsPrefix(metadata, metadata')
              /\ \A i \in (Len(metadata) + 1)..Len(metadata') :
                     metadata'[i] \in [msg : STRING, a : Int, b : Int]
              /\ result' = "raised" /\ result # "raised" =>
                     Len(metadata') = Len(metadata) + 1]_vars

\* C12 witness: a finished invocation whose log holds the header followed by
\* the lines of at least two methods
C12_Witness ==
    /\ pc = "exited" /\ exitStatus = 0
    /\ IsPrefix(Header, metadata)
    /\ Len(metadata) >= Len(Header) + 6


(***************************************************************************)
(* The batch of calculate_indices.py.                                      *)
(***************************************************************************)
\* the completion message of the batch
CompletionPrinted == \E i \in DOMAIN stdout : stdout[i] = "Proceso completado"

\* C13: in the batch every sentinel2_*.tif found is attempted exactly once,
\* in sorted order: the images taken so far are always an initial segment of
\* the sorted list, the completion message is printed only after all of them
\* were taken, and, whenever images are found, the loop reaches the
\* completion message whatever exceptions the images raised.
C13_BatchAttemptsEveryImage ==
    /\ [](/\ IsPrefix(attempts, sorted_raw(MIN_YEAR, MAX_YEAR))
          /\ CompletionPrinted => attempts = sorted_raw(MIN_YEAR, MAX_YEAR))
    /\ (sorted_raw(MIN_YEAR, MAX_YEAR) # <<>>) ~> CompletionPrinted

\* C13 witness: the batch completed after a first image that raised and a
\* later image that was processed and written
C13_Witness ==
    /\ CompletionPrinted
    /\ Len(attempts) >= 2
    /\ ~can_read(raw[attempts[1]])
    /\ can_read(raw[attempts[2]])
    /\ files[attempts[2]].exists


(***************************************************************************)
(* The grid written by method_anomaly.                                     *)
(***************************************************************************)
AnomalyDone == AnomalyCalled /\ result = "ok"

\* C14: every value of the grid written by method_anomaly is finite, a
\* Z-score that is not finite having been replaced by 0.
C14_AnomalyGridIsFinite ==
    outputs["anomaly"].written =>
        \A p \in DOMAIN outputs["anomaly"].data :
            /\ isfinite(outputs["anomaly"].data[p])
            /\ ~isfinite(raw_z_score(finite_at(locals.stack, p),
                                     locals.img_t2[1][p]))
                   => outputs["anomaly"].data[p] = 0

\* C14 witness: the target pixel is NaN after masking, the history is finite,
\* and the grid holds 0 there
C14_Witness ==
    /\ AnomalyDone
    /\ ~isfinite(locals.img_t2[1][1])
    /\ finite_at(locals.stack, 1) # <<>>
    /\ outputs["anomaly"].data[1] = 0

\* the historical values of pixel p are all finite and equal to h
ConstantHistory(p, h) ==
    /\ isfinite(h)
    /\ locals.stack # <<>>
    /\ \A i \in DOMAIN locals.stack : locals.stack[i][p] = h

\* C15: a pixel with a finite target NDVI and a zero-variance history gets
\* 0, however far the target is from the historical value.
C15_ZeroVarianceGivesZero ==
    AnomalyDone =>
        \A p \in DOMAIN outputs["anomaly"].data :
            (/\ isfinite(locals.img_t2[1][p])
             /\ \E h \in NdviVals : ConstantHistory(p, h))
            => outputs["anomaly"].data[p] = 0


(***************************************************************************)
(* The encoding chosen by save_raster.                                     *)
(***************************************************************************)
\* save_raster has returned
SaveDone == pc = "returned" /\ "is_int" \in DOMAIN locals

\* C16: save_raster chooses the encoding from the array alone: an integer
\* array is written as int8 when its minimum is >= -128 and its maximum is
\* <= 127 and as int16 otherwise, with nodata 0; any other array is written
\* as float32 with nodata NaN; the file is LZW-compressed in every case.
C16_EncodingFromArray ==
    SaveDone =>
        LET data == locals.data
            out == outputs[locals.output_path]
            fits == \A p \in DOMAIN data : -128 <= data[p] /\ data[p] <= 127
        IN  /\ out.written
            /\ out.compress = "lzw"
            /\ locals.is_int =>
                   /\ out.dtype = (IF fits THEN "int8" ELSE "int16")
                   /\ out.nodata = 0
            /\ ~locals.is_int =>
                   /\ out.dtype = "float32"
                   /\ out.nodata = NaN

\* C16 witness: an integer array reaching both limits of int8, written as int8
C16_Witness ==
    /\ SaveDone
    /\ locals.is_int
    /\ ArrayMin(locals.data) = -128
    /\ ArrayMax(locals.data) = 127
    /\ outputs[locals.output_path].dtype = "int8"


(***************************************************************************)
(* The scale detection and the indices of calcular_indices.                *)
(***************************************************************************)
\* C17: the scale factor is 10000 exactly when some value of the sample
\* window (rows and columns 0..9) of the first band is strictly greater than
\* 1.5, and 1 otherwise (a maximum of exactly 1.5 gives 1); every one of the
\* five bands read is divided by that same factor.
C17_ScaleFactor ==
    IndicesDone =>
        LET first == raw[MIN_YEAR].bands[1]
            above == \E p \in DOMAIN first :
                         /\ PixelRow(p) < 10 /\ PixelCol(p) < 10
                         /\ first[p] > 150
        IN  /\ locals.factor = (IF above THEN 10000 ELSE 1)
            /\ DOMAIN locals.scaled = 1..5
            /\ \A b \in 1..5 :
                   /\ locals.scaled[b].factor = locals.factor
                   /\ locals.scaled[b].values = raw[MIN_YEAR].bands[b]

\* C17 witness: the sample maximum is exactly 1.5, a digital number lies
\* outside the window, and the factor is 1
C17_Witness ==
    /\ IndicesDone
    /\ raw[MIN_YEAR].bands[1][1] = 150
    /\ raw[MIN_YEAR].bands[1][2] > 150
    /\ locals.factor = 1


\* the five bands of pixel p, divided by the factor, are reflectances of [0, 1]
ReflectanceAt(p) ==
    \A b \in 1..5 :
        /\ 0 <= raw[MIN_YEAR].bands[b][p]
        /\ raw[MIN_YEAR].bands[b][p] <= 100 * locals.factor

\* C18: for a pixel whose bands are reflectances of [0, 1], NDVI, NDBI and
\* NDWI are finite and lie in [-1, 1]; the epsilon of the denominator leaves
\* no division by zero, a zero denominator giving 0.
C18_IndicesBounded ==
    IndicesDone =>
        \A p \in DOMAIN raw[MIN_YEAR].bands[1] :
            ReflectanceAt(p) =>
                \A i \in 1..3 :
                    /\ isfinite(files[MIN_YEAR].bands[i][p])
                    /\ -100 <= files[MIN_YEAR].bands[i][p]
                    /\ files[MIN_YEAR].bands[i][p] <= 100

\* C18 witness: NIR and Red are both 0 (NDVI has a zero denominator and is
\* 0) while SWIR1 is not, so NDBI is exactly 1
C18_Witness ==
    /\ IndicesDone
    /\ ReflectanceAt(1)
    /\ raw[MIN_YEAR].bands[3][1] = 0
    /\ raw[MIN_YEAR].bands[4][1] = 0
    /\ files[MIN_YEAR].bands[1][1] = 0
    /\ files[MIN_YEAR].bands[2][1] = 100


(***************************************************************************)
(* method_difference on identical grids.                                   *)
(***************************************************************************)
\* C19: method_difference applied to two identical index grids writes class
\* 0 at every pixel, for every threshold >= 0 (0 included) and every band;
\* this covers the grids of uniform bands, whose NDVI is 0 everywhere.
C19_IdenticalGridsNoChange ==
    (DifferenceDone /\ files[locals.t1_path] = files[locals.t2_path]) =>
        \A p \in DOMAIN outputs["diff"].data : outputs["diff"].data[p] = 0

\* C19 witness: the same finite non-zero value in both years at a pixel
\* inside the boundary, a difference of exactly 0, class 0
C19_Witness ==
    /\ DifferenceDone
    /\ files[YearA] = files[YearB]
    /\ isfinite(locals.img_t1[1][1])
    /\ Eq(Sub(locals.img_t2[1][1], locals.img_t1[1][1]), 0)
    /\ outputs["diff"].data[1] = 0


(***************************************************************************)
(* Pixels without a finite NDVI in method_urban_classification.            *)
(***************************************************************************)
\* C20: a pixel whose NDVI is not finite in year A or in year B keeps class
\* 0, even when its NDBI and NDWI values satisfy a rule (rule 4 needs no
\* NDVI at all).
C20_InvalidNdviStaysZero ==
    UrbanDone =>
        \A p \in DOMAIN outputs["urban"].data :
            (locals.img_t1[1][p] = NaN \/ locals.img_t2[1][p] = NaN)
            => outputs["urban"].data[p] = 0

\* C20 witness: NDVI is NaN in year B only, NDWI goes from negative to
\* positive (rule 4 holds), and the class is 0
C20_Witness ==
    /\ UrbanDone
    /\ locals.img_t1[1][1] # NaN
    /\ locals.img_t2[1][1] = NaN
    /\ Rule(4, PixelOf(locals.img_t1, 1), PixelOf(locals.img_t2, 1))
    /\ outputs["urban"].data[1] = 0


(***************************************************************************)
(* Failures of the detection methods and of calcular_indices.              *)
(***************************************************************************)
\* C21: when the boundary vector file does not exist, a call of
\* method_difference, method_urban_classification or method_anomaly ends in
\* an error and leaves every change and anomaly raster as it was.
C21_MissingBoundaryWritesNothing ==
    [][(~vector.exists /\ started' # started) =>
           /\ result' \in {"error", "raised"}
           /\ outputs' = outputs]_vars

\* C21 witness: both index stacks exist, the boundary file does not, and
\* method_urban_classification has raised
C21_Witness ==
    /\ pc = "returned" /\ started = {"urban"}
    /\ ~vector.exists
    /\ files[YearA].exists /\ files[YearB].exists
    /\ result = "raised"
    /\ ~outputs["urban"].written


\* the image taken by the last iteration of the batch
LastAttempt == attempts[Len(attempts)]

\* C22: calcular_indices on a source raster that cannot be opened or that
\* has fewer than five bands ends in an error and leaves the destination
\* index file as it was (absent, or with its previous content), and the
\* batch writes no metadata block for that year.
C22_UnreadableSourceWritesNothing ==
    /\ [][(attempts' # attempts
             /\ ~can_read(raw[attempts'[Len(attempts')]])) =>
              /\ result' = "raised"
              /\ files' = files
              /\ index_log' = index_log]_vars
    /\ [](\A i \in DOMAIN index_log :
              index_log[i].year # 0 => can_read(raw[index_log[i].year]))

\* C22 witness: the source of the first year has four bands, its index file
\* of an earlier run is still there, and the call has raised
C22_Witness ==
    /\ attempts # <<>>
    /\ LastAttempt = MIN_YEAR
    /\ raw[MIN_YEAR] = ShortFile
    /\ files[MIN_YEAR] \in SampleFiles
    /\ result = "raised"
    /\ Len(index_log) = Len(IndexHeader)


\* C23: method_difference and method_urban_classification reject a pair of
\* rasters that differ in CRS or transform with an error, before any
\* pixel-wise comparison, and write no output raster for it.
C23_GridMismatchRejected ==
    (pc = "returned" /\ files[YearA].grid # files[YearB].grid) =>
        /\ result = "raised"
        /\ \A k \in Kinds : ~outputs[k].written


(***************************************************************************)
(* Frame of the detection operations.                                      *)
(***************************************************************************)
\* C24: no step of a detect_changes invocation (method_difference,
\* method_urban_classification, method_anomaly, save_raster included)
\* creates, modifies or deletes an indices_<year>.tif file.
C24_IndexStacksUntouched == [][files' = files]_vars

\* C24 witness: an invocation that ran the three methods and wrote the
\* three rasters, with a pixel outside the boundary
C24_Witness ==
    /\ pc = "exited" /\ exitStatus = 0
    /\ started = {"diff", "urban", "anomaly"}
    /\ \A k \in Kinds : outputs[k].written
    /\ ~vector.inside[1]


(***************************************************************************)
(* Repeated calls of calcular_indices.                                     *)
(***************************************************************************)
\* C25: calcular_indices run again on the same source and destination leaves
\* the destination with the same four bands, and the bands written do not
\* depend on what the destination held before: all the destinations written
\* from one source hold the same bands.
C25_RerunWritesSameBands ==
    /\ [](result = "ok" =>
              \A i \in DOMAIN attempts : \A j \in DOMAIN attempts :
                  files[attempts[i]].bands = files[attempts[j]].bands)
    /\ [][(/\ result' = "ok"
           /\ attempts' # attempts
           /\ \E i \in DOMAIN attempts :
                  attempts[i] = attempts'[Len(attempts')])
          => files' = files]_vars

\* C25 witness: two successful runs towards the same destination, the other
\* destination still holding an index file of an earlier run
C25_Witness ==
    /\ Len(attempts) = 2
    /\ attempts[1] = attempts[2]
    /\ result = "ok"
    /\ \E d \in Destinations :
           d # attempts[1] /\ files[d].exists
               /\ files[d].bands # files[attempts[1]].bands


(***************************************************************************)
(* The Z-score of method_anomaly.                                          *)
(***************************************************************************)
\* the stored NDVI of year y at pixel p as the masking leaves it
MaskedNdvi(y, p) ==
    IF vector.inside[p] /\ files[y].bands[1][p] # 0 THEN files[y].bands[1][p]
    ELSE NaN

\* the finite NDVI values at pixel p of the years from y on, target excluded
RECURSIVE HistoryValues(_, _, _)
HistoryValues(y, target, p) ==
    IF y > MAX_YEAR THEN <<>>
    ELSE (IF files[y].exists /\ y # target /\ MaskedNdvi(y, p) # NaN
          THEN <<MaskedNdvi(y, p)>> ELSE <<>>)
         \o HistoryValues(y + 1, target, p)

\* pixel 1 has the history 0.20, 0.25, 0.22 and the target 0.40
Scenario ==
    /\ AnomalyDone
    /\ HistoryValues(MIN_YEAR, locals.target_year, 1) = <<20, 25, 22>>
    /\ MaskedNdvi(locals.target_year, 1) = 40

\* C26: for the history 0.20, 0.25, 0.22 and the target 0.40 the Z-score
\* written is about 8.8 (between 8.75 and 8.85).
C26_ScenarioNearEightPointEight ==
    Scenario =>
        /\ outputs["anomaly"].data[1] >= 875
        /\ outputs["anomaly"].data[1] <= 885

\* C26 amended: for a pixel with a finite target NDVI and at least one finite
\* historical value, method_anomaly writes (target - mean) / (std + 1e-6),
\* mean and population standard deviation being taken over the finite values
\* of the non-target years only; for the history 0.20, 0.25, 0.22 and the
\* target 0.40 this is a strong positive anomaly, Z > 2, of about 8.6
\* (mean 0.2233, std 0.02055).
C26_ZScoreOfHistory ==
    /\ AnomalyDone =>
           \A p \in DOMAIN outputs["anomaly"].data :
               LET vals == HistoryValues(MIN_YEAR, locals.target_year, p)
                   cur == MaskedNdvi(locals.target_year, p)
               IN  (cur # NaN /\ vals # <<>>) =>
                       outputs["anomaly"].data[p] = raw_z_score(vals, cur)
    /\ Scenario =>
           /\ outputs["anomaly"].data[1] > 200
           /\ outputs["anomaly"].data[1] >= 855
           /\ outputs["anomaly"].data[1] <= 865

\* C26 witness: the scenario has been computed and written
C26_Witness ==
    /\ Scenario
    /\ Len(locals.stack) = 3
    /\ outputs["anomaly"].written
    /\ outputs["anomaly"].data[1] > 200


(***************************************************************************)
(* Failures inside a method, and the statistics the methods log.           *)
(***************************************************************************)
\* C27: with the method selector "all", a failure inside one detection
\* method ends only that method: an invocation that passed the validation
\* has entered all three methods when it ends.
C27_FailureEndsOnlyItsMethod ==
    (args.method = "all" /\ ValidInvocation /\ pc = "exited") =>
        started = {"diff", "urban", "anomaly"}

\* the lines of the log whose message is msg
LinesOf(msg) == {i \in DOMAIN metadata : metadata[i].msg = msg}

\* C28: after a run of method_urban_classification the log holds one count
\* line for each of the classes 1..4, with the number of pixels of the
\* class, the classes without a pixel included.
C28_OneLinePerClass ==
    UrbanDone =>
        \A k \in 1..4 :
            \E i \in LinesOf("Clase") :
                /\ metadata[i].a = k
                /\ metadata[i].b =
                       Cardinality({p \in DOMAIN outputs["urban"].data :
                                       outputs["urban"].data[p] = k})

\* C29: in method_difference a pixel with a non-zero class has a finite
\* difference, so gains + losses <= valid pixels and each logged share is
\* between 0 and 100%; the two statistics lines are logged exactly when
\* some pixel is valid, so their divisor is never 0.
C29_DifferenceStatistics ==
    DifferenceDone =>
        LET data == outputs["diff"].data
            valid == {p \in DOMAIN data :
                         locals.img_t1[1][p] # NaN /\ locals.img_t2[1][p] # NaN}
            gains == {p \in DOMAIN data : data[p] = 1}
            losses == {p \in DOMAIN data : data[p] = -1}
        IN  /\ gains \cup losses \subseteq valid
            /\ Cardinality(gains) + Cardinality(losses) <= Cardinality(valid)
            /\ \A i \in LinesOf("Ganancia") \cup LinesOf("Perdida") :
                   /\ metadata[i].b = Cardinality(valid)
                   /\ metadata[i].b > 0
                   /\ 0 <= metadata[i].a /\ metadata[i].a <= metadata[i].b
            /\ \A i \in LinesOf("Ganancia") : metadata[i].a = Cardinality(gains)
            /\ \A i \in LinesOf("Perdida") : metadata[i].a = Cardinality(losses)
            /\ (valid # {}) <=> (LinesOf("Ganancia") # {} /\ LinesOf("Perdida") # {})

\* C29 witness: the only valid pixel is a gain, logged as 1 of 1
C29_Witness ==
    /\ DifferenceDone
    /\ outputs["diff"].data[1] = 1
    /\ \E i \in LinesOf("Ganancia") : metadata[i].a = 1 /\ metadata[i].b = 1
    /\ \E i \in LinesOf("Perdida") : metadata[i].a = 0 /\ metadata[i].b = 1


(***************************************************************************)
(* What the scale factor depends on.                                       *)
(***************************************************************************)
\* some value of the raster outside the sample window of band 1 is a
\* digital number (above 1.5)
DigitalNumbersElsewhere ==
    \/ \E p \in DOMAIN raw[MIN_YEAR].bands[1] :
           (PixelRow(p) >= 10 \/ PixelCol(p) >= 10)
               /\ raw[MIN_YEAR].bands[1][p] > 150
    \/ \E b \in 2..5 : \E p \in DOMAIN raw[MIN_YEAR].bands[b] :
           raw[MIN_YEAR].bands[b][p] > 150

\* the values of band 1 inside the sample window, by pixel
WindowOf(src) ==
    [p \in {q \in DOMAIN src.bands[1] : PixelRow(q) < 10 /\ PixelCol(q) < 10}
        |-> src.bands[1][p]]

\* pixels of other rasters: nothing, digital numbers, reflectances
ProbePixels ==
    {<<0, 0, 0, 0, 0>>, <<200000, 20, 50, 200000, 50>>, <<20, 20, 20, 50, 50>>}

\* a raster with the window of src in band 1 and the values of x and y
\* everywhere else
SameWindow(src, x, y) ==
    RawFile(<<src.bands[1][1], x[2], x[3], x[4], x[5]>>, y)

\* C30: the scale factor depends only on the top-left 10x10 window of band
\* 1: it is the factor of every raster with that window, whatever the other
\* pixels and bands hold; a raster whose window is at most 1.5 gets factor 1
\* and its bands are left unscaled even when its other values are digital
\* numbers.
C30_FactorDependsOnWindowOnly ==
    IndicesDone =>
        /\ \A x \in ProbePixels, y \in ProbePixels :
               /\ WindowOf(SameWindow(raw[MIN_YEAR], x, y)) = WindowOf(raw[MIN_YEAR])
               /\ scale_factor(SameWindow(raw[MIN_YEAR], x, y)) = locals.factor
        /\ (\A p \in DOMAIN WindowOf(raw[MIN_YEAR]) :
                WindowOf(raw[MIN_YEAR])[p] <= 150)
               => /\ locals.factor = 1
                  /\ \A b \in 1..5 : locals.scaled[b].factor = 1

\* C30 witness: the window of band 1 holds 0, the rest of the raster holds
\* digital numbers, and the factor is 1
C30_Witness ==
    /\ IndicesDone
    /\ raw[MIN_YEAR].bands[1][1] = 0
    /\ raw[MIN_YEAR].bands[1][2] > 150
    /\ raw[MIN_YEAR].bands[4][1] > 150
    /\ DigitalNumbersElsewhere
    /\ locals.factor = 1

=============================================================================
